---------------------------- MODULE Spec2Model ----------------------------
(***************************************************************************)
(* A model of the .tar.gz installer: core/installer.py (Installer),        *)
(* core/db_manager.py (DBManager) and ui/main_window.py (Worker).          *)
(*                                                                         *)
(* An "attempt" is one Installer object driven by one caller.  Three       *)
(* callers appear in the sources:                                          *)
(*   "worker"  Worker.run (main_window.py:30-52), a QThread of its own,    *)
(*             using the module-level db_manager (main_window.py:15);      *)
(*   "script"  the call sequence of installer.py:258-261 (extract_package, *)
(*             run_installation, cleanup, run_installation's result not    *)
(*             looked at), on the thread that owns the store;              *)
(*   "dbtest"  the call sequence of db_manager.py:72-81 (add_package, then *)
(*             get_files_for_package), on the thread that owns the store.  *)
(*                                                                         *)
(* The store is ONE sqlite3 connection and ONE cursor (db_manager.py:      *)
(* 12-13), opened with the default check_same_thread: every use from a     *)
(* thread other than the one that opened it raises ProgrammingError.  The  *)
(* connection holds one implicit transaction: an INSERT joins it, only     *)
(* commit() ends it, and the code never rolls back.                        *)
(***************************************************************************)
EXTENDS Naturals, Sequences, FiniteSets

(* ------------------------------ bounds --------------------------------- *)
MaxAttempts == 2
MaxFiles == 2

Attempts == 1..MaxAttempts
\* mkdtemp names; two per attempt are enough for every attempt to hold both
\* of its directories at once
DirNames == 1..(2 * MaxAttempts)

None == "None"
\* None where the value is otherwise a directory name or a row id
NoDir == 0
NoId == 0

(* --------------------------- character data ---------------------------- *)
Digits == {"0", "1", "2", "3", "4", "5", "6", "7", "8", "9"}
TarGz == <<".", "t", "a", "r", ".", "g", "z">>

\* paths handed to Installer(file_path), as character sequences
ArchivePaths ==
  { <<"d", "/", "a", "-", "1", ".", "0", ".", "t", "a", "r", ".", "g", "z">>,
    <<"c", ".", "z", "i", "p">> }

\* regular files an install command may write below $DESTDIR: the directory
\* (relative to $DESTDIR) and the file name
StagedFiles ==
  { [dir |-> "usr/local/bin", name |-> "app"],
    [dir |-> "etc", name |-> "app.conf"] }

\* str.endswith
EndsWith(s, suf) ==
  /\ Len(s) >= Len(suf)
  /\ SubSeq(s, Len(s) - Len(suf) + 1, Len(s)) = suf

\* os.path.basename: what follows the last "/"
Basename(s) ==
  LET slashes == {i \in 1..Len(s) : s[i] = "/"}
      last == IF slashes = {} THEN 0
              ELSE CHOOSE i \in slashes : \A j \in slashes : j <= i
  IN SubSeq(s, last + 1, Len(s))

\* str.replace(pat, ''): every occurrence, left to right
RECURSIVE RemoveAll(_, _)
RemoveAll(s, pat) ==
  IF Len(s) < Len(pat) THEN s
  ELSE IF SubSeq(s, 1, Len(pat)) = pat
       THEN RemoveAll(SubSeq(s, Len(pat) + 1, Len(s)), pat)
       ELSE <<Head(s)>> \o RemoveAll(Tail(s), pat)

\* str.split(c)
RECURSIVE Split(_, _)
Split(s, c) ==
  IF \A i \in 1..Len(s) : s[i] # c THEN <<s>>
  ELSE LET i == CHOOSE k \in 1..Len(s) :
                  s[k] = c /\ \A j \in 1..(k - 1) : s[j] # c
       IN <<SubSeq(s, 1, i - 1)>> \o Split(SubSeq(s, i + 1, Len(s)), c)

\* c.join(parts)
RECURSIVE Join(_, _)
Join(parts, c) ==
  IF parts = <<>> THEN <<>>
  ELSE IF Len(parts) = 1 THEN parts[1]
       ELSE parts[1] \o <<c>> \o Join(Tail(parts), c)

\* the list comprehension [p for p in parts if not re.match(r'^\d', p)]
RECURSIVE NameParts(_)
NameParts(parts) ==
  IF parts = <<>> THEN <<>>
  ELSE IF Head(parts) # <<>> /\ Head(parts)[1] \in Digits
       THEN NameParts(Tail(parts))
       ELSE <<Head(parts)>> \o NameParts(Tail(parts))

UnknownPackage ==
  <<"u", "n", "k", "n", "o", "w", "n", "_", "p", "a", "c", "k", "a", "g", "e">>
Unknown == <<"u", "n", "k", "n", "o", "w", "n">>

\* Installer._get_package_name
GetPackageName(path) ==
  LET parts == Split(RemoveAll(Basename(path), TarGz), "-")
      name == Join(NameParts(parts), "-")
  IN IF name = <<>> THEN UnknownPackage ELSE name

\* length of the run of digits of s that starts at i (0 if none)
RECURSIVE DigitRun(_, _)
DigitRun(s, i) ==
  IF i > Len(s) \/ s[i] \notin Digits THEN 0 ELSE 1 + DigitRun(s, i + 1)

\* length of the match of \d+\.\d+ at i (0 if none)
MatchXY(s, i) ==
  LET n1 == DigitRun(s, i)
      dot == i + n1
      n2 == DigitRun(s, dot + 1)
  IN IF n1 > 0 /\ dot <= Len(s) /\ s[dot] = "." /\ n2 > 0
     THEN n1 + 1 + n2 ELSE 0

\* length of the match of \d+\.\d+\.\d+|\d+\.\d+ at i (0 if none)
MatchVersion(s, i) ==
  LET xy == MatchXY(s, i)
      dot == i + xy
      n3 == DigitRun(s, dot + 1)
  IN IF xy > 0 /\ dot <= Len(s) /\ s[dot] = "." /\ n3 > 0
     THEN xy + 1 + n3 ELSE xy

\* Installer._get_package_version: the first match of re.findall, or "unknown"
GetPackageVersion(path) ==
  LET s == Basename(path)
      starts == {i \in 1..Len(s) : MatchVersion(s, i) > 0}
  IN IF starts = {} THEN Unknown
     ELSE LET i == CHOOSE k \in starts : \A j \in starts : k <= j
          IN SubSeq(s, i, i + MatchVersion(s, i) - 1)


(* ------------------------------ the store ------------------------------ *)
\* the thread that ran DBManager(...) and so owns conn and cursor
MainThread == <<"main">>

\* the literal arguments of the self-test's add_package call
TestName == <<"t", "e", "s", "t">>
TestVersion == <<"1", ".", "0">>

\* os.path.join(root, file) for a root below the directory base
FullPath(base, e) == [base |-> base, rel |-> e.dir \o "/" \o e.name]

\* os.path.relpath(full_path, staging_dir)
RelPath(full, start) == IF full.base = start THEN full.rel ELSE "../" \o full.rel

\* the relative path appended as it is, without the leading separator
ManifestEntryBare(d, e) == RelPath(FullPath(d, e), d)

\* installed_files.append('/' + relative_path), for entry e of the walk of d
ManifestEntry(d, e) == "/" \o RelPath(FullPath(d, e), d)

\* manifest entries: '/' + the path relative to the staging directory
ManifestPaths == {ManifestEntry(1, e) : e \in StagedFiles}

\* the files argument of a direct add_package call: any list of at most
\* MaxFiles entries, each a path or None (a None path breaks NOT NULL)
FileLists ==
  UNION {[1..n -> ManifestPaths \cup {None}] : n \in 0..MaxFiles}

\* every order in which os.walk may list the files of S
Orderings(S) ==
  {s \in [1..Cardinality(S) -> S] : \A i, j \in 1..Cardinality(S) :
                                       s[i] = s[j] => i = j}

(* ------------------------------- state --------------------------------- *)
VARIABLES
  pc,              \* where each attempt stands
  driver,          \* "none" | "worker" | "script" | "dbtest"
  file_path,       \* Installer.file_path
  has_db,          \* Installer.db_manager is set
  temp_dir,        \* Installer.temp_dir
  extracted_path,  \* Installer.extracted_path
  build_system,    \* run_installation's build_system
  step,            \* index of the next build command
  staging_dir,     \* run_installation's staging_dir
  installed_files, \* run_installation's installed_files / add_package's files
  package_id,      \* add_package's package_id
  ret,             \* what run_installation returned
  exc,             \* the exception that ended the attempt, if any
  emitted,         \* terminal signals emitted by Worker.run, in order
  runs,            \* the Popen calls made, in order, each with how it ended
  archive,         \* what the archive at file_path turned out to be
  staged,          \* the regular files the install command left below DESTDIR
  \* one attempt followed in detail (DetailSpec):
  tarball,         \* what is at the path dropped on the window
  listing,         \* what list_archive_contents gave the inspection dialog
  markers,         \* the marker files in the extracted root
  proc,            \* the subprocess of the current command
  pipe,            \* the lines the subprocess has written and nobody has read
  full_output,     \* the build loop's full_output
  sink,            \* what was passed to log_callback, in order
  written,         \* every line a subprocess has written, in order
  retrieved,       \* what get_files_for_package returned
  dirs,            \* temporary directories: name -> creator (0: absent)
  committed,       \* rows of the store that are committed
  pending,         \* rows inserted in the open transaction
  pkg_seq,         \* AUTOINCREMENT of packages.id
  file_seq,        \* AUTOINCREMENT of installed_files.id
  lastrowid        \* cursor.lastrowid

installer_vars == <<file_path, has_db, temp_dir, extracted_path, build_system,
                    step, staging_dir, ret, runs>>
store_vars == <<committed, pending, pkg_seq, file_seq, lastrowid>>
world_vars == <<archive, staged>>
main_vars == <<pc, driver, installer_vars, installed_files, package_id, exc,
               emitted, retrieved, dirs, store_vars, world_vars>>
detail_vars == <<tarball, listing, markers, proc, pipe, full_output, sink,
                 written>>
vars == <<main_vars, detail_vars>>

NoRows == [packages |-> {}, files |-> {}]

\* extracted_path is <base>/<comp>: comp "" is the temporary directory itself,
\* "D" a top-level directory of the archive, "f" a top-level regular file;
\* "unset" is an Installer whose extracted_path was never assigned
\* (__init__ does not create the attribute)
NoPath == [base |-> NoDir, comp |-> "unset"]

\* run_installation has not returned
NoRet == [ok |-> FALSE, type |-> "none", info |-> None]
Result(ok, type, info) == [ok |-> ok, type |-> type, info |-> info]

\* no path has been dropped, no dialog opened
NoTarball == [kind |-> "none", members |-> <<>>]
NoListing == [raised |-> None, members |-> <<>>]

\* DetailSpec's variables where nothing is followed in detail
DetailIdle ==
  /\ tarball = NoTarball
  /\ listing = NoListing
  /\ markers = {}
  /\ proc = "none"
  /\ pipe = <<>>
  /\ full_output = <<>>
  /\ sink = <<>>
  /\ written = <<>>

Init ==
  /\ DetailIdle
  /\ pc = [a \in Attempts |-> "idle"]
  /\ driver = [a \in Attempts |-> "none"]
  /\ file_path = [a \in Attempts |-> <<>>]
  /\ has_db = [a \in Attempts |-> FALSE]
  /\ temp_dir = [a \in Attempts |-> NoDir]
  /\ extracted_path = [a \in Attempts |-> NoPath]
  /\ build_system = [a \in Attempts |-> None]
  /\ step = [a \in Attempts |-> 1]
  /\ staging_dir = [a \in Attempts |-> NoDir]
  /\ installed_files = [a \in Attempts |-> <<>>]
  /\ package_id = [a \in Attempts |-> NoId]
  /\ ret = [a \in Attempts |-> NoRet]
  /\ exc = [a \in Attempts |-> None]
  /\ emitted = [a \in Attempts |-> <<>>]
  /\ runs = [a \in Attempts |-> <<>>]
  /\ archive = [a \in Attempts |-> "unread"]
  /\ staged = [a \in Attempts |-> {}]
  /\ retrieved = [a \in Attempts |-> <<>>]
  /\ dirs = [d \in DirNames |-> 0]
  /\ committed = NoRows
  /\ pending = NoRows
  /\ pkg_seq = 0
  /\ file_seq = 0
  /\ lastrowid = NoId

(* ------------------------------ callers -------------------------------- *)
\* the thread an attempt runs on: a Worker is a QThread of its own
Thread(a) == IF driver[a] = "worker" THEN <<"QThread", a>> ELSE MainThread

Ended(a) == pc[a] \in {"done", "crashed"}

\* attempts are numbered in the order in which they start
InOrder(a) == \A b \in Attempts : b < a => pc[b] # "idle"

\* the owning thread runs one call sequence at a time
MainThreadFree ==
  \A b \in Attempts : driver[b] \in {"script", "dbtest"} => Ended(b)

\* an exception nobody catches ends the attempt where it stands
Raise(a, e) ==
  /\ pc' = [pc EXCEPT ![a] = "crashed"]
  /\ exc' = [exc EXCEPT ![a] = e]

\* MainWindow.dropEvent: Worker(file_path).start(); dragEnterEvent lets only
\* names ending in .tar.gz through
StartWorker(a) ==
  /\ pc[a] = "idle"
  /\ InOrder(a)
  /\ \E f \in ArchivePaths :
       /\ EndsWith(f, TarGz)
       /\ file_path' = [file_path EXCEPT ![a] = f]
  /\ driver' = [driver EXCEPT ![a] = "worker"]
  /\ has_db' = [has_db EXCEPT ![a] = TRUE]
  /\ pc' = [pc EXCEPT ![a] = "extract"]
  /\ UNCHANGED <<temp_dir, extracted_path, build_system, step, staging_dir,
                 ret, runs, installed_files, package_id, exc, emitted,
                 retrieved, dirs, store_vars>>
  /\ UNCHANGED <<archive, staged>>
  /\ UNCHANGED detail_vars

\* Installer(path, log_callback, db_manager) driven as in installer.py:258-261
StartScript(a) ==
  /\ pc[a] = "idle"
  /\ InOrder(a)
  /\ MainThreadFree
  /\ \E f \in ArchivePaths, db \in BOOLEAN :
       /\ file_path' = [file_path EXCEPT ![a] = f]
       /\ has_db' = [has_db EXCEPT ![a] = db]
  /\ driver' = [driver EXCEPT ![a] = "script"]
  /\ pc' = [pc EXCEPT ![a] = "extract"]
  /\ UNCHANGED <<temp_dir, extracted_path, build_system, step, staging_dir,
                 ret, runs, installed_files, package_id, exc, emitted,
                 retrieved, dirs, store_vars>>
  /\ UNCHANGED <<archive, staged>>
  /\ UNCHANGED detail_vars

\* a direct add_package(name, version, files) call, as in db_manager.py:72
StartDbTest(a) ==
  /\ pc[a] = "idle"
  /\ InOrder(a)
  /\ MainThreadFree
  /\ \E files \in FileLists :
       installed_files' = [installed_files EXCEPT ![a] = files]
  /\ driver' = [driver EXCEPT ![a] = "dbtest"]
  /\ pc' = [pc EXCEPT ![a] = "ap_insert"]
  /\ UNCHANGED <<installer_vars, package_id, exc, emitted, retrieved, dirs,
                 store_vars>>
  /\ UNCHANGED <<archive, staged>>
  /\ UNCHANGED detail_vars

(* ----------------------------- Installer -------------------------------- *)
\* the names mkdtemp has handed out so far
HandedOut ==
  ({temp_dir[a] : a \in Attempts} \cup {staging_dir[a] : a \in Attempts})
    \ {NoDir}

\* a mkdtemp that hands out again the name of a directory that was removed
FreeDirsReused ==
  LET free == {d \in DirNames : dirs[d] = 0}
  IN {d \in free : \A e \in free : d <= e}

\* tempfile.mkdtemp returns a new directory under a random name: a name that
\* does not exist and was not handed out before; the names are
\* interchangeable, and the model takes the least one
FreeDirs ==
  LET free == {d \in DirNames : dirs[d] = 0 /\ d \notin HandedOut}
  IN {d \in free : \A e \in free : d <= e}

\* Installer.cleanup: the directories left once it has run
Cleanup(a) ==
  IF temp_dir[a] # NoDir /\ dirs[temp_dir[a]] # 0
  THEN [dirs EXCEPT ![temp_dir[a]] = 0]
  ELSE dirs

\* what tarfile.open / getmembers / extractall may do with the archive:
\*   "dir"     the first member is (inside) a top-level directory
\*   "file"    the first member is a top-level regular file
\*   "empty"   the archive has no members
\*   "TarErrorOpen"     tarfile.TarError before extracted_path is assigned
\*   "TarErrorExtract"  tarfile.TarError from extractall
\*   "OtherError"       an exception that is no TarError (EOFError on a
\*                      truncated stream, OSError on I/O failure)
ExtractOutcomes ==
  {"dir", "file", "empty", "TarErrorOpen", "TarErrorExtract", "OtherError"}

RootOf(d, outcome) ==
  IF outcome = "TarErrorOpen" THEN NoPath
  ELSE [base |-> d,
        comp |-> IF outcome = "empty" THEN ""
                 ELSE IF outcome = "file" THEN "f" ELSE "D"]

\* Installer.extract_package, with the caller's use of its result
\* (main_window.py:35-38; installer.py:259 ignores it)
ExtractPackage(a) ==
  /\ pc[a] = "extract"
  /\ IF ~EndsWith(file_path[a], TarGz)
     THEN /\ Raise(a, "ValueError")
          /\ UNCHANGED <<temp_dir, extracted_path, dirs, archive>>
     ELSE \E d \in FreeDirs, outcome \in ExtractOutcomes :
            /\ temp_dir' = [temp_dir EXCEPT ![a] = d]
            /\ archive' = [archive EXCEPT ![a] = outcome]
            /\ IF outcome = "OtherError"
               THEN /\ dirs' = [dirs EXCEPT ![d] = a]
                    /\ Raise(a, "OtherError")
                    /\ UNCHANGED extracted_path
               ELSE /\ extracted_path' =
                         [extracted_path EXCEPT ![a] = RootOf(d, outcome)]
                    /\ exc' = exc
                    /\ IF outcome \in {"TarErrorOpen", "TarErrorExtract"}
                       THEN \* cleanup(); return None
                            /\ dirs' = dirs
                            /\ pc' = [pc EXCEPT ![a] =
                                 IF driver[a] = "worker"
                                 THEN "w_extract_failed" ELSE "ri_detect"]
                       ELSE /\ dirs' = [dirs EXCEPT ![d] = a]
                            /\ pc' = [pc EXCEPT ![a] = "ri_detect"]
  /\ UNCHANGED <<driver, file_path, has_db, build_system, step, staging_dir,
                 ret, runs, installed_files, package_id, emitted,
                 retrieved, store_vars>>
  /\ UNCHANGED staged
  /\ UNCHANGED detail_vars

Markers == {"configure", "CMakeLists.txt", "setup.py", "Makefile"}

\* os.path.isdir(self.extracted_path)
IsDir(path) ==
  /\ path.base # NoDir
  /\ dirs[path.base] # 0
  /\ path.comp \in {"", "D"}

\* the checks in another order: Makefile first
DetectBuildSystemMakeFirst(path, present) ==
  IF ~IsDir(path) THEN None
  ELSE IF "Makefile" \in present THEN "make"
  ELSE IF "configure" \in present THEN "autotools"
  ELSE IF "CMakeLists.txt" \in present THEN "cmake"
  ELSE IF "setup.py" \in present THEN "python"
  ELSE None

\* Installer.detect_build_system on an assigned extracted_path whose
\* directory holds the marker files present
DetectBuildSystem(path, present) ==
  IF ~IsDir(path) THEN None
  ELSE IF "configure" \in present THEN "autotools"
  ELSE IF "CMakeLists.txt" \in present THEN "cmake"
  ELSE IF "setup.py" \in present THEN "python"
  ELSE IF "Makefile" \in present THEN "make"
  ELSE None

\* a table in which make comes before the step that prepares it
CommandsMakeFirst(bs) ==
  CASE bs = "autotools" ->
         << <<"make">>, <<"./configure">>, <<"make", "install">> >>
    [] bs = "cmake" ->
         << <<"make">>, <<"cmake", ".">>, <<"make", "install">> >>
    [] bs = "python" -> << <<"python3", "setup.py", "install">> >>
    [] bs = "make" -> << <<"make", "install">>, <<"make">> >>
    [] OTHER -> <<>>

\* the commands table of run_installation
Commands(bs) ==
  CASE bs = "autotools" ->
         << <<"./configure">>, <<"make">>, <<"make", "install">> >>
    [] bs = "cmake" ->
         << <<"cmake", ".">>, <<"make">>, <<"make", "install">> >>
    [] bs = "python" -> << <<"python3", "setup.py", "install">> >>
    [] bs = "make" -> << <<"make">>, <<"make", "install">> >>
    [] OTHER -> <<>>

\* 'install' in ' '.join(cmd): in this table the word occurs only as a whole
\* argument
IsInstall(cmd) == \E i \in 1..Len(cmd) : cmd[i] = "install"
IsBuild(cmd) == ~IsInstall(cmd)

BuildCommands(bs) == SelectSeq(Commands(bs), IsBuild)
InstallCommandsOnly(bs) == SelectSeq(Commands(bs), IsInstall)

\* Installer._parse_error_for_dependencies; the output is given by the
\* patterns it matches ("header": fatal error: <h>.h:, "lib": cannot find -l)
ParseErrorForDependencies(output) ==
  IF "header" \in output THEN "package containing foo.h"
  ELSE IF "lib" \in output THEN "libfoo-dev"
  ELSE None

\* run_installation returns r to its caller
Return(a, r) ==
  /\ ret' = [ret EXCEPT ![a] = r]
  /\ pc' = [pc EXCEPT ![a] =
              IF driver[a] = "worker" THEN "w_emit" ELSE "s_cleanup"]
  /\ exc' = exc

\* one Popen call: how it ended is "zero" or "nonzero" (the exit status of
\* the process it started) or the exception Popen raised
Run(cmd, how, env) == [cmd |-> cmd, how |-> how, env |-> env]
Started(r) == r.how \in {"zero", "nonzero"}

\* what subprocess.Popen(cmd) may raise: FileNotFoundError while no command
\* with the same executable has been started by this attempt; PermissionError
\* for an executable taken from the extracted tree
LaunchErrors(a, cmd) ==
  (IF \A i \in 1..Len(runs[a]) :
        Started(runs[a][i]) => runs[a][i].cmd[1] # cmd[1]
   THEN {"FileNotFoundError"} ELSE {})
  \cup (IF cmd[1] = "./configure" THEN {"PermissionError"} ELSE {})

\* os.environ: the environment of the installer's own process (DESTDIR unset)
Environ == [PATH |-> "inherited", DESTDIR |-> NoDir]

\* Popen without env= (line 113): the child inherits os.environ
BuildEnv == Environ

\* the install command started like a build command
InstallEnvInherited(d) == Environ

\* env = os.environ.copy(); env['DESTDIR'] = staging_dir (lines 142-143)
InstallEnv(d) == [Environ EXCEPT !.DESTDIR = d]

\* the build loop with the exit status never looked at
BuildFailedCodeIgnored(code) == FALSE

\* if return_code != 0 (line 120)
BuildFailedCode(code) == code # "zero"

\* if return_code != 0 (line 157)
InstallFailedCode(code) == code # "zero"

\* persisting whatever the manifest holds
ShouldPersistAnyManifest(a, files) == has_db[a]

\* if self.db_manager and installed_files (line 175)
ShouldPersist(a, files) == has_db[a] /\ files # <<>>

\* a build system of None passed on to the command table
NotDetectedIgnored(bs) == FALSE

\* if not build_system (line 90)
NotDetected(bs) == bs = None

\* run_installation, lines 89-107: detection and the command lists
RunDetect(a) ==
  /\ pc[a] = "ri_detect"
  /\ IF extracted_path[a] = NoPath
     THEN /\ Raise(a, "AttributeError")
          /\ UNCHANGED <<build_system, ret>>
     ELSE \E present \in SUBSET Markers :
            /\ extracted_path[a].comp = "" => present = {}
            /\ LET bs == DetectBuildSystem(extracted_path[a], present)
               IN IF NotDetected(bs)
                  THEN /\ Return(a, Result(FALSE, "str",
                                           "Build system not detected"))
                       /\ UNCHANGED build_system
                  ELSE /\ build_system' = [build_system EXCEPT ![a] = bs]
                       /\ pc' = [pc EXCEPT ![a] =
                                   IF BuildCommands(bs) # <<>>
                                   THEN "ri_build" ELSE "ri_install"]
                       /\ UNCHANGED <<ret, exc>>
  /\ UNCHANGED <<driver, file_path, has_db, temp_dir, extracted_path, step,
                 staging_dir, runs, installed_files, package_id, emitted,
                 retrieved, dirs, store_vars>>
  /\ UNCHANGED <<archive, staged>>
  /\ UNCHANGED detail_vars

\* the build loop's step after command i returned zero
AfterBuildOk(a) ==
  IF step[a] < Len(BuildCommands(build_system[a]))
  THEN "ri_build" ELSE "ri_install"

\* run_installation, lines 110-131: one pass of the build loop
RunBuild(a) ==
  /\ pc[a] = "ri_build"
  /\ LET cmd == BuildCommands(build_system[a])[step[a]]
     IN \/ \E e \in LaunchErrors(a, cmd) :
             /\ runs' = [runs EXCEPT ![a] = Append(@, Run(cmd, e, BuildEnv))]
             /\ IF e = "FileNotFoundError"
                THEN Return(a, Result(FALSE, "str", "Command not found"))
                ELSE Raise(a, e) /\ UNCHANGED ret
             /\ UNCHANGED step
        \/ \E code \in {"zero", "nonzero"}, output \in SUBSET {"header", "lib"} :
             /\ code = "zero" => output = {}
             /\ runs' = [runs EXCEPT ![a] = Append(@, Run(cmd, code, BuildEnv))]
             /\ IF BuildFailedCode(code)
                THEN /\ LET missing == ParseErrorForDependencies(output)
                        IN IF missing # None
                           THEN Return(a, Result(FALSE, "dependency", missing))
                           ELSE Return(a, Result(FALSE, "str",
                                                 "Command failed"))
                     /\ UNCHANGED step
                ELSE /\ step' = [step EXCEPT ![a] = @ + 1]
                     /\ pc' = [pc EXCEPT ![a] = AfterBuildOk(a)]
                     /\ UNCHANGED <<ret, exc>>
  /\ UNCHANGED <<driver, file_path, has_db, temp_dir, extracted_path,
                 build_system, staging_dir, installed_files, package_id,
                 emitted, retrieved, dirs, store_vars>>
  /\ UNCHANGED <<archive, staged>>
  /\ UNCHANGED detail_vars

\* what an install command may leave below $DESTDIR: at most MaxFiles regular
\* files, in the directories that hold them
StagedTrees == {T \in SUBSET StagedFiles : Cardinality(T) <= MaxFiles}

\* the loop over os.walk(staging_dir), lines 163-169: one entry per file of
\* each directory's files list, the directories in the order of the walk
Walk(d, tree) == Orderings({ManifestEntry(d, e) : e \in tree})

\* run_installation, lines 134-178: the staging directory, the install
\* command under DESTDIR, the walk of the staging directory
RunInstall(a) ==
  /\ pc[a] = "ri_install"
  /\ IF InstallCommandsOnly(build_system[a]) = <<>>
     THEN /\ Return(a, Result(TRUE, "str", "Build successful (no install step)"))
          /\ UNCHANGED <<staging_dir, runs, installed_files, dirs, staged>>
     ELSE LET cmd == InstallCommandsOnly(build_system[a])[1]
          IN \E d \in FreeDirs :
               /\ staging_dir' = [staging_dir EXCEPT ![a] = d]
               /\ \/ \E e \in LaunchErrors(a, cmd) :
                       \* Popen is outside any try: the exception leaves
                       \* run_installation with the staging directory in place
                       /\ runs' = [runs EXCEPT ![a] =
                                    Append(@, Run(cmd, e, InstallEnv(d)))]
                       /\ Raise(a, e)
                       /\ dirs' = [dirs EXCEPT ![d] = a]
                       /\ UNCHANGED <<ret, installed_files, staged>>
                  \/ \E code \in {"zero", "nonzero"}, tree \in StagedTrees :
                     \E files \in Walk(d, tree) :
                       \* what a failed command wrote goes with the directory
                       /\ code = "nonzero" => tree = {}
                       /\ runs' = [runs EXCEPT ![a] =
                                    Append(@, Run(cmd, code, InstallEnv(d)))]
                       /\ staged' = [staged EXCEPT ![a] = tree]
                       /\ IF InstallFailedCode(code)
                          THEN \* shutil.rmtree(staging_dir)
                               /\ Return(a, Result(FALSE, "str",
                                           "Installation command failed"))
                               /\ UNCHANGED <<installed_files, dirs>>
                          ELSE \* the walk; name and version; add_package
                               /\ dirs' = [dirs EXCEPT ![d] = a]
                               /\ installed_files' =
                                    [installed_files EXCEPT ![a] = files]
                               /\ pc' = [pc EXCEPT ![a] =
                                           IF ShouldPersist(a, files)
                                           THEN "ap_insert" ELSE "ri_finish"]
                               /\ UNCHANGED <<ret, exc>>
  /\ UNCHANGED <<driver, file_path, has_db, temp_dir, extracted_path,
                 build_system, step, package_id, emitted, retrieved,
                 store_vars>>
  /\ UNCHANGED archive
  /\ UNCHANGED detail_vars

\* the staging directory removed and Success returned as soon as the walk is
\* done, whether or not the package is still to be persisted
RunFinishBeforePersisting(a) ==
  /\ pc[a] \in {"ap_insert", "ri_finish"}
  /\ dirs' = [dirs EXCEPT ![staging_dir[a]] = 0]
  /\ Return(a, Result(TRUE, "str", "Success"))
  /\ UNCHANGED <<driver, file_path, has_db, temp_dir, extracted_path,
                 build_system, step, staging_dir, runs, installed_files,
                 package_id, emitted, retrieved, store_vars>>
  /\ UNCHANGED <<archive, staged>>
  /\ UNCHANGED detail_vars

\* run_installation, lines 180-186: remove the staging directory, Success
RunFinish(a) ==
  /\ pc[a] = "ri_finish"
  /\ dirs' = [dirs EXCEPT ![staging_dir[a]] = 0]
  /\ Return(a, Result(TRUE, "str", "Success"))
  /\ UNCHANGED <<driver, file_path, has_db, temp_dir, extracted_path,
                 build_system, step, staging_dir, runs, installed_files,
                 package_id, emitted, retrieved, store_vars>>
  /\ UNCHANGED <<archive, staged>>
  /\ UNCHANGED detail_vars

(* ------------------------------ DBManager ------------------------------ *)
\* a connection opened with check_same_thread=False
SameThreadUnchecked(a) == TRUE

\* sqlite3's check_same_thread (the default of sqlite3.connect)
SameThread(a) == Thread(a) = MainThread

\* the name and version arguments of the attempt's add_package call
CallName(a) ==
  IF driver[a] = "dbtest" THEN TestName ELSE GetPackageName(file_path[a])
CallVersion(a) ==
  IF driver[a] = "dbtest" THEN TestVersion
  ELSE GetPackageVersion(file_path[a])

\* add_package, lines 38-39: INSERT INTO packages; package_id = lastrowid
AddPackageInsert(a) ==
  /\ pc[a] = "ap_insert"
  /\ IF ~SameThread(a)
     THEN /\ Raise(a, "ProgrammingError")
          /\ UNCHANGED <<package_id, store_vars>>
     ELSE /\ pending' = [pending EXCEPT !.packages = @ \cup
                 {[id |-> pkg_seq + 1, name |-> CallName(a),
                   version |-> CallVersion(a), by |-> a]}]
          /\ pkg_seq' = pkg_seq + 1
          /\ lastrowid' = pkg_seq + 1
          /\ package_id' = [package_id EXCEPT ![a] = lastrowid']
          /\ pc' = [pc EXCEPT ![a] = "ap_files"]
          /\ UNCHANGED <<exc, committed, file_seq>>
  /\ UNCHANGED <<driver, installer_vars, installed_files, emitted, retrieved,
                 dirs>>
  /\ UNCHANGED <<archive, staged>>
  /\ UNCHANGED detail_vars

\* how many rows executemany inserts before a row breaks NOT NULL on path
Insertable(files) ==
  LET bad == {i \in 1..Len(files) : files[i] = None}
  IN IF bad = {} THEN Len(files)
     ELSE (CHOOSE i \in bad : \A j \in bad : i <= j) - 1

\* add_package, lines 41-42: executemany INSERT INTO installed_files.  A row
\* that fails aborts its own statement only: the rows before it stay in the
\* open transaction, and the exception leaves add_package
AddPackageFiles(a) ==
  /\ pc[a] = "ap_files"
  /\ SameThread(a)
  /\ LET files == installed_files[a]
         n == Insertable(files)
     IN /\ pending' = [pending EXCEPT !.files = @ \cup
               {[id |-> file_seq + i, package_id |-> package_id[a],
                 path |-> files[i], by |-> a] : i \in 1..n}]
        /\ file_seq' = file_seq + n
        /\ IF n < Len(files)
           THEN Raise(a, "IntegrityError")
           ELSE pc' = [pc EXCEPT ![a] = "ap_commit"] /\ exc' = exc
  /\ UNCHANGED <<driver, installer_vars, installed_files, package_id, emitted,
                 retrieved, dirs, committed, pkg_seq, lastrowid>>
  /\ UNCHANGED <<archive, staged>>
  /\ UNCHANGED detail_vars

\* conn.commit(): everything in the open transaction becomes durable
\* (cby records whose commit it was)
Commit(a) ==
  [packages |-> committed.packages \cup
                  {[row |-> r, cby |-> a] : r \in pending.packages},
   files |-> committed.files \cup
               {[row |-> r, cby |-> a] : r \in pending.files}]

\* add_package, lines 44-45: commit and return package_id
AddPackageCommit(a) ==
  /\ pc[a] = "ap_commit"
  /\ SameThread(a)
  /\ committed' = Commit(a)
  /\ pending' = NoRows
  /\ pc' = [pc EXCEPT ![a] =
              IF driver[a] = "dbtest" THEN "t_query" ELSE "ri_finish"]
  /\ UNCHANGED <<driver, installer_vars, installed_files, package_id, exc,
                 emitted, retrieved, dirs, pkg_seq, file_seq, lastrowid>>
  /\ UNCHANGED <<archive, staged>>
  /\ UNCHANGED detail_vars

\* the rows a SELECT on the connection sees: committed and its own pending
VisibleFiles == {c.row : c \in committed.files} \cup pending.files

\* the SELECT without its WHERE clause
GetFilesOfAnyPackage(id) ==
  LET rows == VisibleFiles
  IN [i \in 1..Cardinality(rows) |->
        (CHOOSE r \in rows :
           Cardinality({q \in rows : q.id < r.id}) = i - 1).path]

\* get_files_for_package: SELECT path FROM installed_files WHERE
\* package_id = ?, in rowid order
GetFilesForPackage(id) ==
  LET rows == {r \in VisibleFiles : r.package_id = id}
  IN [i \in 1..Cardinality(rows) |->
        (CHOOSE r \in rows :
           Cardinality({q \in rows : q.id < r.id}) = i - 1).path]

\* db_manager.py:76: retrieved_files = get_files_for_package(package_id)
QueryFiles(a) ==
  /\ pc[a] = "t_query"
  /\ SameThread(a)
  /\ retrieved' = [retrieved EXCEPT ![a] = GetFilesForPackage(package_id[a])]
  /\ pc' = [pc EXCEPT ![a] = "done"]
  /\ UNCHANGED <<driver, installer_vars, installed_files, package_id, exc,
                 emitted, dirs, store_vars>>
  /\ UNCHANGED <<archive, staged>>
  /\ UNCHANGED detail_vars

(* ----------------------------- the callers ----------------------------- *)
Signal(name, arg) == [signal |-> name, arg |-> arg]

\* Worker.run, lines 36-38
WorkerExtractFailed(a) ==
  /\ pc[a] = "w_extract_failed"
  /\ emitted' = [emitted EXCEPT ![a] =
       Append(@, Signal("finished", "Failed to extract package."))]
  /\ pc' = [pc EXCEPT ![a] = "done"]
  /\ UNCHANGED <<driver, installer_vars, installed_files, package_id, exc,
                 retrieved, dirs, store_vars>>
  /\ UNCHANGED <<archive, staged>>
  /\ UNCHANGED detail_vars

\* the terminal signal of Worker.run, lines 42-49
TerminalSignal(r) ==
  IF r.ok THEN Signal("finished", "Installation completed successfully!")
  ELSE IF r.type = "dependency" THEN Signal("dependency_found", r.info)
  ELSE Signal("finished", "Installation failed: " \o r.info)

\* Worker.run, lines 42-49
WorkerEmit(a) ==
  /\ pc[a] = "w_emit"
  /\ emitted' = [emitted EXCEPT ![a] = Append(@, TerminalSignal(ret[a]))]
  /\ pc' = [pc EXCEPT ![a] = "w_cleanup"]
  /\ UNCHANGED <<driver, installer_vars, installed_files, package_id, exc,
                 retrieved, dirs, store_vars>>
  /\ UNCHANGED <<archive, staged>>
  /\ UNCHANGED detail_vars

\* Worker.run, lines 51-52
WorkerCleanup(a) ==
  /\ pc[a] = "w_cleanup"
  /\ dirs' = Cleanup(a)
  /\ pc' = [pc EXCEPT ![a] = "done"]
  /\ UNCHANGED <<driver, installer_vars, installed_files, package_id, exc,
                 emitted, retrieved, store_vars>>
  /\ UNCHANGED <<archive, staged>>
  /\ UNCHANGED detail_vars

\* installer.py:261: installer.cleanup()
ScriptCleanup(a) ==
  /\ pc[a] = "s_cleanup"
  /\ dirs' = Cleanup(a)
  /\ pc' = [pc EXCEPT ![a] = "done"]
  /\ UNCHANGED <<driver, installer_vars, installed_files, package_id, exc,
                 emitted, retrieved, store_vars>>
  /\ UNCHANGED <<archive, staged>>
  /\ UNCHANGED detail_vars

Next ==
  \E a \in Attempts :
    \/ StartWorker(a)
    \/ StartScript(a)
    \/ StartDbTest(a)
    \/ ExtractPackage(a)
    \/ RunDetect(a)
    \/ RunBuild(a)
    \/ RunInstall(a)
    \/ RunFinish(a)
    \/ AddPackageInsert(a)
    \/ AddPackageFiles(a)
    \/ AddPackageCommit(a)
    \/ QueryFiles(a)
    \/ WorkerExtractFailed(a)
    \/ WorkerEmit(a)
    \/ WorkerCleanup(a)
    \/ ScriptCleanup(a)

Spec == Init /\ [][Next]_vars

(* ------------------- one attempt followed in detail -------------------- *)
(* DetailSpec follows attempt 1 alone from the drop on the window: the      *)
(* inspection dialog's listing, the worker's extraction, the detection on    *)
(* the marker files the root holds, and the commands of run_installation     *)
(* with the subprocess writing and the installer reading line by line.       *)
(* Where Spec draws what the environment does at the step that reads it,     *)
(* DetailSpec keeps it in the state.                                         *)

\* what may be at a dropped path whose name ends in .tar.gz, with the members
\* the archive was made with:
\*   "package"    a valid archive of a directory D
\*   "empty"      a valid archive with no members
\*   "not_gzip"   no gzip stream at all (tarfile.ReadError)
\*   "damaged"    a valid gzip stream whose second tar header is corrupt
\*   "truncated"  a gzip stream cut short (EOFError)
Tarballs ==
  { [kind |-> "package", members |-> <<"D", "D/Makefile">>],
    [kind |-> "empty", members |-> <<>>],
    [kind |-> "not_gzip", members |-> <<>>],
    [kind |-> "damaged", members |-> <<"a.txt", "b.txt", "c.txt">>],
    [kind |-> "truncated", members |-> <<"D", "D/Makefile">>] }

\* Installer.list_archive_contents: tar.getmembers(), [] on tarfile.TarError;
\* getmembers stops without an error at a corrupt header that is not the
\* first; an exception that is no TarError is not caught
ListArchiveContents(t) ==
  CASE t.kind \in {"package", "empty"} ->
         [raised |-> None, members |-> t.members]
    [] t.kind = "not_gzip" -> [raised |-> None, members |-> <<>>]
    [] t.kind = "damaged" -> [raised |-> None, members |-> SubSeq(t.members, 1, 1)]
    [] t.kind = "truncated" -> [raised |-> "EOFError", members |-> <<>>]

\* the state in which a path has been dropped and the dialog is being built
DetailInit ==
  /\ tarball \in Tarballs
  /\ markers \in SUBSET Markers
  /\ tarball.kind # "package" => markers = {}
  /\ listing = NoListing
  /\ proc = "none"
  /\ pipe = <<>>
  /\ full_output = <<>>
  /\ sink = <<>>
  /\ written = <<>>
  /\ pc = [a \in Attempts |-> IF a = 1 THEN "d_dialog" ELSE "idle"]
  /\ driver = [a \in Attempts |-> IF a = 1 THEN "worker" ELSE "none"]
  /\ file_path \in {[a \in Attempts |-> IF a = 1 THEN f ELSE <<>>] :
                      f \in {g \in ArchivePaths : EndsWith(g, TarGz)}}
  /\ has_db = [a \in Attempts |-> a = 1]
  /\ temp_dir = [a \in Attempts |-> NoDir]
  /\ extracted_path = [a \in Attempts |-> NoPath]
  /\ build_system = [a \in Attempts |-> None]
  /\ step = [a \in Attempts |-> 1]
  /\ staging_dir = [a \in Attempts |-> NoDir]
  /\ installed_files = [a \in Attempts |-> <<>>]
  /\ package_id = [a \in Attempts |-> NoId]
  /\ ret = [a \in Attempts |-> NoRet]
  /\ exc = [a \in Attempts |-> None]
  /\ emitted = [a \in Attempts |-> <<>>]
  /\ runs = [a \in Attempts |-> <<>>]
  /\ archive = [a \in Attempts |-> "unread"]
  /\ staged = [a \in Attempts |-> {}]
  /\ retrieved = [a \in Attempts |-> <<>>]
  /\ dirs = [d \in DirNames |-> 0]
  /\ committed = NoRows
  /\ pending = NoRows
  /\ pkg_seq = 0
  /\ file_seq = 0
  /\ lastrowid = NoId

\* InspectionDialog.__init__ -> populate_tree: the listing of the dropped path
PopulateTree ==
  /\ pc[1] = "d_dialog"
  /\ listing' = ListArchiveContents(tarball)
  /\ IF listing'.raised # None
     THEN Raise(1, listing'.raised)
     ELSE pc' = [pc EXCEPT ![1] = "d_decide"] /\ exc' = exc
  /\ UNCHANGED <<driver, installer_vars, installed_files, package_id, emitted,
                 retrieved, dirs, store_vars, world_vars>>
  /\ UNCHANGED <<tarball, markers, proc, pipe, full_output, sink, written>>

\* dropEvent, lines 107-109: the dialog was rejected
Cancel ==
  /\ pc[1] = "d_decide"
  /\ pc' = [pc EXCEPT ![1] = "d_cancelled"]
  /\ UNCHANGED <<driver, installer_vars, installed_files, package_id, exc,
                 emitted, retrieved, dirs, store_vars, world_vars>>
  /\ UNCHANGED detail_vars

\* dropEvent, lines 98-106: the dialog was accepted, and the Worker's
\* extract_package; from here a package is followed; what the worker does
\* with the other tarballs is in Spec
Proceed ==
  /\ pc[1] = "d_decide"
  /\ IF tarball.kind = "package"
     THEN \E d \in FreeDirs :
            /\ temp_dir' = [temp_dir EXCEPT ![1] = d]
            /\ archive' = [archive EXCEPT ![1] = "dir"]
            /\ extracted_path' = [extracted_path EXCEPT ![1] = RootOf(d, "dir")]
            /\ dirs' = [dirs EXCEPT ![d] = 1]
            /\ pc' = [pc EXCEPT ![1] = "d_detect"]
     ELSE /\ pc' = [pc EXCEPT ![1] = "d_left"]
          /\ UNCHANGED <<temp_dir, archive, extracted_path, dirs>>
  /\ UNCHANGED <<driver, file_path, has_db, build_system, step, staging_dir,
                 ret, runs, installed_files, package_id, exc, emitted,
                 retrieved, store_vars, staged>>
  /\ UNCHANGED detail_vars

\* where the command loop of run_installation starts for build system bs
FirstCommand(bs) ==
  IF BuildCommands(bs) # <<>> THEN "d_popen_build" ELSE "d_popen_install"

\* run_installation, lines 89-107, on the marker files of the root
Detect ==
  /\ pc[1] = "d_detect"
  /\ LET bs == DetectBuildSystem(extracted_path[1], markers)
     IN IF NotDetected(bs)
        THEN /\ Return(1, Result(FALSE, "str", "Build system not detected"))
             /\ UNCHANGED build_system
        ELSE /\ build_system' = [build_system EXCEPT ![1] = bs]
             /\ pc' = [pc EXCEPT ![1] = FirstCommand(bs)]
             /\ UNCHANGED <<ret, exc>>
  /\ UNCHANGED <<driver, file_path, has_db, temp_dir, extracted_path, step,
                 staging_dir, runs, installed_files, package_id, emitted,
                 retrieved, dirs, store_vars, world_vars>>
  /\ UNCHANGED detail_vars

(* text: a str is the sequence of its characters *)
MaxLines == 2

\* the characters \w matches, among those of the lines below
WordChars ==
  {"a", "b", "c", "d", "e", "f", "g", "h", "i", "j", "k", "l", "m", "n",
    "o", "p", "q", "r", "s", "t", "u", "v", "w", "x", "y", "z", "A", "B",
    "C", "D", "E", "F", "G", "H", "I", "J", "K", "L", "M", "N", "O", "P",
    "Q", "R", "S", "T", "U", "V", "W", "X", "Y", "Z", "0", "1", "2", "3",
    "4", "5", "6", "7", "8", "9", "_"}

\* [\w\/\.]
HeaderChars == WordChars \cup {"/", "."}

\* what str.strip() removes at both ends
Whitespace == {" ", "\t", "\n", "\r"}

RECURSIVE LStrip(_)
LStrip(s) ==
  IF s # <<>> /\ Head(s) \in Whitespace THEN LStrip(Tail(s)) ELSE s

RECURSIVE RStrip(_)
RStrip(s) ==
  IF s # <<>> /\ s[Len(s)] \in Whitespace
  THEN RStrip(SubSeq(s, 1, Len(s) - 1)) ELSE s

\* line.strip()
Strip(s) == RStrip(LStrip(s))

\* the literal lit stands in s at position i
MatchAt(s, i, lit) ==
  /\ i + Len(lit) - 1 <= Len(s)
  /\ SubSeq(s, i, i + Len(lit) - 1) = lit

\* the length of the longest run of characters of class that starts at i
RECURSIVE ClassRun(_, _, _)
ClassRun(s, i, class) ==
  IF i > Len(s) \/ s[i] \notin class THEN 0
  ELSE 1 + ClassRun(s, i + 1, class)

\* "fatal error: "
FatalError ==
  <<"f", "a", "t", "a", "l", " ", "e", "r", "r", "o", "r", ":", " ">>

\* "cannot find -l"
CannotFind ==
  <<"c", "a", "n", "n", "o", "t", " ", "f", "i", "n", "d", " ", "-", "l">>

\* re.search(r"fatal error: ([\w\/\.]+\.h):", s).group(1) for the leftmost
\* match, <<>> without a match.  The class holds no ":", so the group is the
\* whole run of class characters after the literal: it must end in ".h" after
\* at least one more character and be followed by ":"
HeaderSearch(s) ==
  LET p(i) == i + Len(FatalError)
      n(i) == ClassRun(s, p(i), HeaderChars)
      starts == {i \in 1..Len(s) :
                   /\ MatchAt(s, i, FatalError)
                   /\ n(i) >= 3
                   /\ SubSeq(s, p(i) + n(i) - 2, p(i) + n(i) - 1) = <<".", "h">>
                   /\ MatchAt(s, p(i) + n(i), <<":">>)}
  IN IF starts = {} THEN <<>>
     ELSE LET i == CHOOSE k \in starts : \A j \in starts : k <= j
          IN SubSeq(s, p(i), p(i) + n(i) - 1)

\* re.search(r"cannot find -l(\w+)", s).group(1) for the leftmost match, <<>>
\* without a match
LibSearch(s) ==
  LET p(i) == i + Len(CannotFind)
      starts == {i \in 1..Len(s) :
                   MatchAt(s, i, CannotFind) /\ ClassRun(s, p(i), WordChars) >= 1}
  IN IF starts = {} THEN <<>>
     ELSE LET i == CHOOSE k \in starts : \A j \in starts : k <= j
          IN SubSeq(s, p(i), p(i) + ClassRun(s, p(i), WordChars) - 1)

\* "package containing "
PackageContaining ==
  <<"p", "a", "c", "k", "a", "g", "e", " ", "c", "o", "n", "t", "a", "i",
    "n", "i", "n", "g", " ">>

\* f"lib{missing_lib}-dev"
LibDev(name) == <<"l", "i", "b">> \o name \o <<"-", "d", "e", "v">>

\* no hint: _parse_error_for_dependencies returned None
NoHint == <<>>

\* the two searches in the other order
ParseErrorLibFirst(text) ==
  IF LibSearch(text) # <<>> THEN LibDev(LibSearch(text))
  ELSE IF HeaderSearch(text) # <<>>
       THEN PackageContaining \o HeaderSearch(text)
       ELSE NoHint

\* Installer._parse_error_for_dependencies on the text itself (RunBuild of
\* Spec uses ParseErrorForDependencies, on the patterns the text matches)
ParseErrorText(text) ==
  IF HeaderSearch(text) # <<>> THEN PackageContaining \o HeaderSearch(text)
  ELSE IF LibSearch(text) # <<>> THEN LibDev(LibSearch(text))
       ELSE NoHint

\* "fatal error: foo/bar.h: No such file or directory\n"
HeaderLine ==
  <<"f", "a", "t", "a", "l", " ", "e", "r", "r", "o", "r", ":", " ", "f",
    "o", "o", "/", "b", "a", "r", ".", "h", ":", " ", "N", "o", " ", "s",
    "u", "c", "h", " ", "f", "i", "l", "e", " ", "o", "r", " ", "d", "i",
    "r", "e", "c", "t", "o", "r", "y", "\n">>

\* "/usr/bin/ld: cannot find -lfoo\n"
LibLine ==
  <<"/", "u", "s", "r", "/", "b", "i", "n", "/", "l", "d", ":", " ", "c",
    "a", "n", "n", "o", "t", " ", "f", "i", "n", "d", " ", "-", "l", "f",
    "o", "o", "\n">>

\* "  unrelated text\n"
OtherLine ==
  <<" ", " ", "u", "n", "r", "e", "l", "a", "t", "e", "d", " ", "t", "e",
    "x", "t", "\n">>

\* the lines a subprocess may write to its merged stdout and stderr
Lines == {HeaderLine, LibLine, OtherLine}

\* entries of the log sink: a line of a subprocess, or a message of the
\* installer's own (of these, the ones that announce a command or its failure)
Line(i, text) == [from |-> "process", cmd |-> i, text |-> text, msg |-> ""]
Message(i, msg) == [from |-> "installer", cmd |-> i, text |-> <<>>, msg |-> msg]

\* the number, among the attempt's commands, of the command that is running
\* or about to be started
Current == Len(runs[1]) + 1

ExitCodes == {"zero", "nonzero"}

\* a reader that gets the output only when the process has exited
ReadableAtExit(p, pr) == p # <<>> /\ pr \in ExitCodes

\* process.stdout.readline() returns as soon as the pipe holds a line
Readable(p, pr) == p # <<>>

\* readline() returns '': the pipe is empty and the process has closed it
AtEof(p, pr) == p = <<>> /\ pr \in ExitCodes

\* run_installation, lines 110-113 and 127-129: the next build command is
\* started, or cannot be
PopenBuild ==
  /\ pc[1] = "d_popen_build"
  /\ LET cmd == BuildCommands(build_system[1])[step[1]]
         said == Append(sink, Message(Current, "Running build command"))
     IN \/ \E e \in LaunchErrors(1, cmd) :
             /\ runs' = [runs EXCEPT ![1] = Append(@, Run(cmd, e, BuildEnv))]
             /\ IF e = "FileNotFoundError"
                THEN /\ sink' = Append(said, Message(Current, "Command not found"))
                     /\ Return(1, Result(FALSE, "str", "Command not found"))
                ELSE /\ sink' = said
                     /\ Raise(1, e)
                     /\ UNCHANGED ret
             /\ UNCHANGED <<proc, pipe, full_output>>
        \/ /\ proc' = "running"
           /\ pipe' = <<>>
           /\ full_output' = <<>>
           /\ sink' = said
           /\ pc' = [pc EXCEPT ![1] = "d_read_build"]
           /\ UNCHANGED <<runs, ret, exc>>
  /\ UNCHANGED <<driver, file_path, has_db, temp_dir, extracted_path,
                 build_system, step, staging_dir, installed_files, package_id,
                 emitted, retrieved, dirs, store_vars, world_vars>>
  /\ UNCHANGED <<tarball, listing, markers, written>>

\* the subprocess writes a line to its stdout or stderr
ProcessWrites ==
  /\ proc = "running"
  /\ Len(written) < MaxLines
  /\ \E line \in Lines :
       /\ pipe' = Append(pipe, line)
       /\ written' = Append(written, [cmd |-> Current, line |-> line])
  /\ UNCHANGED main_vars
  /\ UNCHANGED <<tarball, listing, markers, proc, full_output, sink>>

\* the subprocess exits, which closes its end of the pipe
ProcessExits ==
  /\ proc = "running"
  /\ \E code \in ExitCodes : proc' = code
  /\ UNCHANGED main_vars
  /\ UNCHANGED <<tarball, listing, markers, pipe, full_output, sink, written>>

\* one pass of the loop over readline, lines 115-117 and 151-152
ReadLine ==
  /\ pc[1] \in {"d_read_build", "d_read_install"}
  /\ Readable(pipe, proc)
  /\ sink' = Append(sink, Line(Current, Strip(Head(pipe))))
  /\ full_output' = IF pc[1] = "d_read_build"
                    THEN full_output \o Head(pipe) ELSE full_output
  /\ pipe' = Tail(pipe)
  /\ UNCHANGED main_vars
  /\ UNCHANGED <<tarball, listing, markers, proc, written>>

\* run_installation, lines 118-126 and 131: the build command's exit status
BuildEof ==
  /\ pc[1] = "d_read_build"
  /\ AtEof(pipe, proc)
  /\ LET cmd == BuildCommands(build_system[1])[step[1]]
     IN runs' = [runs EXCEPT ![1] = Append(@, Run(cmd, proc, BuildEnv))]
  /\ proc' = "none"
  /\ IF BuildFailedCode(proc)
     THEN /\ sink' = Append(sink, Message(Current, "Error executing command"))
          /\ LET missing == ParseErrorText(full_output)
             IN IF missing # NoHint
                THEN Return(1, Result(FALSE, "dependency", missing))
                ELSE Return(1, Result(FALSE, "str", "Command failed"))
          /\ UNCHANGED step
     ELSE /\ sink' = sink
          /\ step' = [step EXCEPT ![1] = @ + 1]
          /\ pc' = [pc EXCEPT ![1] =
                      IF step[1] < Len(BuildCommands(build_system[1]))
                      THEN "d_popen_build" ELSE "d_popen_install"]
          /\ UNCHANGED <<ret, exc>>
  /\ UNCHANGED <<driver, file_path, has_db, temp_dir, extracted_path,
                 build_system, staging_dir, installed_files, package_id,
                 emitted, retrieved, dirs, store_vars, world_vars>>
  /\ UNCHANGED <<tarball, listing, markers, pipe, full_output, written>>

\* run_installation, lines 134-149: the staging directory and the start of
\* the install command
PopenInstall ==
  /\ pc[1] = "d_popen_install"
  /\ IF InstallCommandsOnly(build_system[1]) = <<>>
     THEN /\ Return(1, Result(TRUE, "str", "Build successful (no install step)"))
          /\ UNCHANGED <<staging_dir, runs, dirs, proc, pipe, sink>>
     ELSE LET cmd == InstallCommandsOnly(build_system[1])[1]
              said == Append(sink, Message(Current, "Running install command"))
          IN \E d \in FreeDirs :
               /\ staging_dir' = [staging_dir EXCEPT ![1] = d]
               /\ dirs' = [dirs EXCEPT ![d] = 1]
               /\ sink' = said
               /\ \/ \E e \in LaunchErrors(1, cmd) :
                       /\ runs' = [runs EXCEPT ![1] =
                                    Append(@, Run(cmd, e, InstallEnv(d)))]
                       /\ Raise(1, e)
                       /\ UNCHANGED <<ret, proc, pipe>>
                  \/ /\ proc' = "running"
                     /\ pipe' = <<>>
                     /\ pc' = [pc EXCEPT ![1] = "d_read_install"]
                     /\ UNCHANGED <<runs, ret, exc>>
  /\ UNCHANGED <<driver, file_path, has_db, temp_dir, extracted_path,
                 build_system, step, installed_files, package_id, emitted,
                 retrieved, store_vars, world_vars>>
  /\ UNCHANGED <<tarball, listing, markers, full_output, written>>

\* run_installation, lines 154-160: the install command's exit status; the
\* walk of the staging directory and the store are in Spec
InstallEof ==
  /\ pc[1] = "d_read_install"
  /\ AtEof(pipe, proc)
  /\ LET cmd == InstallCommandsOnly(build_system[1])[1]
     IN runs' = [runs EXCEPT ![1] =
                   Append(@, Run(cmd, proc, InstallEnv(staging_dir[1])))]
  /\ proc' = "none"
  /\ IF InstallFailedCode(proc)
     THEN /\ sink' = Append(sink, Message(Current, "Error executing install command"))
          /\ dirs' = [dirs EXCEPT ![staging_dir[1]] = 0]
          /\ Return(1, Result(FALSE, "str", "Installation command failed"))
     ELSE /\ sink' = sink
          /\ pc' = [pc EXCEPT ![1] = "d_installed"]
          /\ UNCHANGED <<dirs, ret, exc>>
  /\ UNCHANGED <<driver, file_path, has_db, temp_dir, extracted_path,
                 build_system, step, staging_dir, installed_files, package_id,
                 emitted, retrieved, store_vars, world_vars>>
  /\ UNCHANGED <<tarball, listing, markers, pipe, full_output, written>>

DetailNext ==
  \/ PopulateTree
  \/ Cancel
  \/ Proceed
  \/ Detect
  \/ PopenBuild
  \/ ProcessWrites
  \/ ProcessExits
  \/ ReadLine
  \/ BuildEof
  \/ PopenInstall
  \/ InstallEof
  \/ WorkerEmit(1)
  \/ WorkerCleanup(1)

DetailSpec == DetailInit /\ [][DetailNext]_vars

(* --------------------- one attempt and its file name -------------------- *)
(* NamingSpec follows one Installer with a store, driven as in              *)
(* installer.py:258-261, for each of the file names below, up to the row     *)
(* that add_package writes under the name and version taken from the name.   *)

\* "mytool-2.3.1.tar.gz"
MyTool ==
  <<"m", "y", "t", "o", "o", "l", "-", "2", ".", "3", ".", "1", ".", "t",
    "a", "r", ".", "g", "z">>

\* "dummy_inspect.tar.gz"
DummyInspect ==
  <<"d", "u", "m", "m", "y", "_", "i", "n", "s", "p", "e", "c", "t", ".",
    "t", "a", "r", ".", "g", "z">>

\* "d/x-3d-1.2.tar.gz"
Versioned ==
  <<"d", "/", "x", "-", "3", "d", "-", "1", ".", "2", ".", "t", "a", "r",
    ".", "g", "z">>

\* "1.0.tar.gz"
DigitsOnly ==
  <<"1", ".", "0", ".", "t", "a", "r", ".", "g", "z">>

\* "v1.2/app.tar.gz"
InDirectory ==
  <<"v", "1", ".", "2", "/", "a", "p", "p", ".", "t", "a", "r", ".", "g",
    "z">>

\* "a.tar.gz-b-1.0.tar.gz"
TwiceSuffixed ==
  <<"a", ".", "t", "a", "r", ".", "g", "z", "-", "b", "-", "1", ".", "0",
    ".", "t", "a", "r", ".", "g", "z">>

\* the archive paths an Installer is made with
FileNames ==
  {MyTool, DummyInspect, Versioned, DigitsOnly, InDirectory, TwiceSuffixed}

\* Installer(path, log_callback, db_manager): attempt 1 constructed
NamingInit ==
  /\ DetailIdle
  /\ pc = [a \in Attempts |-> IF a = 1 THEN "extract" ELSE "idle"]
  /\ driver = [a \in Attempts |-> IF a = 1 THEN "script" ELSE "none"]
  /\ file_path \in {[a \in Attempts |-> IF a = 1 THEN f ELSE <<>>] :
                      f \in FileNames}
  /\ has_db = [a \in Attempts |-> a = 1]
  /\ temp_dir = [a \in Attempts |-> NoDir]
  /\ extracted_path = [a \in Attempts |-> NoPath]
  /\ build_system = [a \in Attempts |-> None]
  /\ step = [a \in Attempts |-> 1]
  /\ staging_dir = [a \in Attempts |-> NoDir]
  /\ installed_files = [a \in Attempts |-> <<>>]
  /\ package_id = [a \in Attempts |-> NoId]
  /\ ret = [a \in Attempts |-> NoRet]
  /\ exc = [a \in Attempts |-> None]
  /\ emitted = [a \in Attempts |-> <<>>]
  /\ runs = [a \in Attempts |-> <<>>]
  /\ archive = [a \in Attempts |-> "unread"]
  /\ staged = [a \in Attempts |-> {}]
  /\ retrieved = [a \in Attempts |-> <<>>]
  /\ dirs = [d \in DirNames |-> 0]
  /\ committed = NoRows
  /\ pending = NoRows
  /\ pkg_seq = 0
  /\ file_seq = 0
  /\ lastrowid = NoId

NamingNext ==
  \/ ExtractPackage(1)
  \/ RunDetect(1)
  \/ RunBuild(1)
  \/ RunInstall(1)
  \/ AddPackageInsert(1)
  \/ AddPackageFiles(1)
  \/ AddPackageCommit(1)
  \/ RunFinish(1)
  \/ ScriptCleanup(1)

NamingSpec == NamingInit /\ [][NamingNext]_vars

(* ------------------------------ properties ----------------------------- *)
Range(f) == {f[i] : i \in DOMAIN f}
LastRun(a) == runs[a][Len(runs[a])]

IsInstallAttempt(a) == driver[a] \in {"worker", "script"}

\* the temporary directories an attempt created that still exist
OwnDirs(a) == {d \in DirNames : dirs[d] = a}

PackageRows == {c.row : c \in committed.packages} \cup pending.packages
FileRows == {c.row : c \in committed.files} \cup pending.files

\* C1: once a build-role command of an attempt has exited non-zero or could
\* not be launched, it stays the last command of the attempt: no further
\* build-role command and no install-role command is started, and no staging
\* directory is created.
C1_BuildFailureStops ==
  \A a \in Attempts : \A i \in 1..Len(runs[a]) :
    (IsBuild(runs[a][i].cmd) /\ runs[a][i].how # "zero") =>
      /\ i = Len(runs[a])
      /\ staging_dir[a] = NoDir
      /\ pc[a] \notin {"ri_build", "ri_install"}

\* C1 witness: the first of two build-role commands exited non-zero and the
\* attempt has ended.
C1_Witness ==
  \E a \in Attempts :
    /\ Ended(a)
    /\ Len(BuildCommands(build_system[a])) = 2
    /\ Len(runs[a]) = 1
    /\ runs[a][1].how = "nonzero"

\* C2 (as claimed): once an attempt driven by Worker.run has ended, no
\* temporary directory it created exists any more.
C2_EndedAttemptLeavesNoDirs ==
  \A a \in Attempts :
    (driver[a] = "worker" /\ Ended(a)) => OwnDirs(a) = {}

\* C3 (as claimed): when the install-role command exits non-zero or cannot be
\* launched, the staging directory is gone and run_installation has returned
\* a failure outcome.
C3_InstallFailureCleansAndReturns ==
  \A a \in Attempts :
    (runs[a] # <<>> /\ IsInstall(LastRun(a).cmd) /\ LastRun(a).how # "zero") =>
      /\ dirs[staging_dir[a]] # a
      /\ ret[a] # NoRet
      /\ ~ret[a].ok

\* C4 (as claimed): no row written by an add_package call that failed during
\* a file-row insert is ever committed.
C4_FailedCallLeavesNoRows ==
  \A c \in committed.packages \cup committed.files :
    exc[c.row.by] # "IntegrityError"

\* add_package has returned its package id to the attempt
AddReturned(a) ==
  /\ package_id[a] # NoId
  /\ pc[a] \in {"t_query", "ri_finish", "s_cleanup", "w_emit", "w_cleanup", "done"}

\* C5: once add_package(name, version, files) has returned id, now and after
\* any later call, get_files_for_package(id) returns exactly the set of the
\* input files, every row it reads was written by that call, and what the
\* caller retrieved is that set.
C5_FilesRoundTrip ==
  \A a \in Attempts :
    AddReturned(a) =>
      /\ Range(GetFilesForPackage(package_id[a])) = Range(installed_files[a])
      /\ \A r \in FileRows : r.package_id = package_id[a] => r.by = a
      /\ (driver[a] = "dbtest" /\ pc[a] = "done") =>
           Range(retrieved[a]) = Range(installed_files[a])

\* C5 witness: a call with two different paths has been read back while
\* another package with files of its own is in the store.
C5_Witness ==
  \E a, b \in Attempts :
    /\ a # b
    /\ driver[a] = "dbtest" /\ pc[a] = "done"
    /\ Cardinality(Range(installed_files[a])) = 2
    /\ Range(retrieved[a]) = Range(installed_files[a])
    /\ \E r \in FileRows : r.by = b /\ r.package_id # package_id[a]

\* the attempt is between its INSERT INTO packages and its commit
InTransaction(a) == pc[a] \in {"ap_files", "ap_commit"}

\* C6: when install attempts run concurrently on the shared store, no two of
\* them are inside the inserts of add_package at once, every file row carries
\* the id of the package row written by the same call, and a commit by one
\* attempt makes no row of another attempt durable.
C6_AddPackageSerialized ==
  /\ \A a, b \in Attempts :
       (IsInstallAttempt(a) /\ IsInstallAttempt(b)
          /\ InTransaction(a) /\ InTransaction(b)) => a = b
  /\ \A r \in FileRows :
       IsInstallAttempt(r.by) =>
         \E p \in PackageRows : p.id = r.package_id /\ p.by = r.by
  /\ \A c \in committed.packages \cup committed.files :
       (IsInstallAttempt(c.cby) /\ IsInstallAttempt(c.row.by)) =>
         c.cby = c.row.by

\* C6 witness: one attempt is between its inserts and its commit while
\* another attempt, on a thread of its own, has entered add_package.
C6_Witness ==
  \E a, b \in Attempts :
    /\ a # b
    /\ IsInstallAttempt(a) /\ pc[a] = "ap_commit"
    /\ driver[b] = "worker" /\ pc[b] = "ap_insert"

\* C7 (as claimed): every attempt driven by Worker.run that has ended has
\* emitted exactly one terminal signal.
C7_OneTerminalResult ==
  \A a \in Attempts :
    (driver[a] = "worker" /\ Ended(a)) => Len(emitted[a]) = 1

SuccessSignal == Signal("finished", "Installation completed successfully!")

\* C8 (as claimed): when add_package raises after a successful install-role
\* command, the staging directory is kept and the caller of Worker.run gets
\* a terminal signal other than success.
C8_PersistenceFailureSurfaced ==
  \A a \in Attempts :
    (IsInstallAttempt(a) /\ exc[a] \in {"ProgrammingError", "IntegrityError"}) =>
      /\ dirs[staging_dir[a]] = a
      /\ driver[a] = "worker" =>
           (emitted[a] # <<>> /\ emitted[a][Len(emitted[a])] # SuccessSignal)

InstallSucceeded(a) ==
  /\ runs[a] # <<>>
  /\ IsInstall(LastRun(a).cmd)
  /\ LastRun(a).how = "zero"

RowsBy(a) == {r \in PackageRows \cup FileRows : r.by = a}

\* C9: an install attempt has rows in the store only if its install-role
\* command exited zero and its manifest is non-empty; an attempt that ended
\* with a failure outcome, with an exception of Popen, or with success and an
\* empty manifest has none.
C9_RowsOnlyAfterInstall ==
  \A a \in Attempts :
    IsInstallAttempt(a) =>
      /\ RowsBy(a) # {} => (InstallSucceeded(a) /\ installed_files[a] # <<>>)
      /\ (Ended(a) /\ (\/ ret[a] # NoRet /\ ~ret[a].ok
                       \/ exc[a] \in {"FileNotFoundError", "PermissionError"}
                       \/ ret[a].ok /\ installed_files[a] = <<>>)) =>
           RowsBy(a) = {}

\* C9 witness: an install attempt whose install-role command exited zero has
\* its package row and a file row committed.
C9_Witness ==
  \E a \in Attempts :
    /\ IsInstallAttempt(a)
    /\ InstallSucceeded(a)
    /\ \E c \in committed.packages : c.row.by = a
    /\ \E c \in committed.files : c.row.by = a

\* C10 (as claimed): when Worker.run has emitted a failure signal, no
\* temporary directory created by the attempt exists.
C10_CleanBeforeFailureSurfaces ==
  \A a \in Attempts :
    (driver[a] = "worker" /\ emitted[a] # <<>> /\ emitted[a][1] # SuccessSignal) =>
      OwnDirs(a) = {}

DetectionFailed == Result(FALSE, "str", "Build system not detected")
ExtractFailedSignal == Signal("finished", "Failed to extract package.")

C13_DestdirForInstallOnly ==
  \A a \in Attempts : \A i \in 1..Len(runs[a]) :
    LET r == runs[a][i]
    IN /\ IsBuild(r.cmd) => r.env = Environ
       /\ IsInstall(r.cmd) =>
            /\ DOMAIN r.env = DOMAIN Environ
            /\ \A k \in DOMAIN Environ \ {"DESTDIR"} : r.env[k] = Environ[k]
            /\ r.env.DESTDIR = staging_dir[a]
            /\ staging_dir[a] # NoDir
            /\ \A b \in Attempts \ {a} :
                 staging_dir[a] \notin {temp_dir[b], staging_dir[b]}

\* C13 witness: an attempt has run two build-role commands and then its
\* install-role command, which is running under the staging directory that
\* exists.
C13_Witness ==
  \E a \in Attempts :
    /\ Len(runs[a]) = 3
    /\ IsBuild(runs[a][1].cmd) /\ IsBuild(runs[a][2].cmd)
    /\ IsInstall(runs[a][3].cmd)
    /\ runs[a][3].how = "zero"
    /\ dirs[runs[a][3].env.DESTDIR] = a

\* the install-role command of the attempt exited zero and the walk is done
Tracked(a) ==
  /\ IsInstallAttempt(a)
  /\ InstallSucceeded(a)
  /\ pc[a] # "ri_install"

Extracted(a) ==
  /\ archive[a] \in {"dir", "file", "empty"}
  /\ extracted_path[a] # NoPath

\* C16 (as claimed): the root extract_package returns is <tempDir>/D when the
\* first member is (inside) a top-level directory D, and the temporary
\* directory itself otherwise, also when the first member is a top-level
\* regular file; and it is an existing directory.
C16_RootIsDirOrTempDir ==
  \A a \in Attempts :
    (Extracted(a) /\ pc[a] = "ri_detect") =>
      /\ extracted_path[a] =
           [base |-> temp_dir[a],
            comp |-> IF archive[a] = "dir" THEN "D" ELSE ""]
      /\ IsDir(extracted_path[a])

FailedExtractions == {"TarErrorOpen", "TarErrorExtract", "OtherError"}

\* C17 (as claimed): when extract_package has failed after it created the
\* temporary directory, the directory no longer exists.
C17_FailedExtractRemovesTempDir ==
  \A a \in Attempts :
    archive[a] \in FailedExtractions => dirs[temp_dir[a]] # a

\* the directory names an attempt holds
Handles(a) == {temp_dir[a], staging_dir[a]} \ {NoDir}

\* the attempt has extracted its archive and has not yet run cleanup
BeforeCleanup(a) ==
  /\ Extracted(a)
  /\ pc[a] \in {"ri_detect", "ri_build", "ri_install", "ap_insert", "ap_files",
               "ap_commit", "ri_finish", "w_emit", "w_cleanup", "s_cleanup"}

\* the attempt has made its staging directory and has not yet removed it
BeforeStagingRemoval(a) ==
  /\ staging_dir[a] # NoDir
  /\ pc[a] \in {"ap_insert", "ap_files", "ap_commit", "ri_finish"}

\* C18: no two attempts hold the same directory name, one attempt's temporary
\* directory is not its staging directory, a name an attempt holds never
\* names a directory of another attempt (so its cleanup and its staging
\* removal delete nothing of another attempt), and the directories of an
\* attempt exist until the attempt itself removes them.
C18_DirsNeverShared ==
  /\ \A a, b \in Attempts : a # b => Handles(a) \cap Handles(b) = {}
  /\ \A a \in Attempts :
       /\ staging_dir[a] # NoDir => staging_dir[a] # temp_dir[a]
       /\ \A d \in Handles(a) : dirs[d] \in {0, a}
       /\ BeforeCleanup(a) => dirs[temp_dir[a]] = a
       /\ BeforeStagingRemoval(a) => dirs[staging_dir[a]] = a

\* C18 witness: two attempts on the same archive are under way at once, each
\* with its temporary directory and its staging directory, four directories
\* in all.
C18_Witness ==
  \E a, b \in Attempts :
    /\ a # b
    /\ file_path[a] = file_path[b]
    /\ BeforeStagingRemoval(a) /\ BeforeStagingRemoval(b)
    /\ Cardinality(Handles(a) \cup Handles(b)) = 4
    /\ \A d \in Handles(a) : dirs[d] = a
    /\ \A d \in Handles(b) : dirs[d] = b


\* the detection of attempt 1 has been made, in DetailSpec
Detected == archive[1] = "dir" /\ pc[1] # "d_detect"

\* C12: detection classifies by fixed priority for every combination of
\* marker files in the root: configure gives autotools; else CMakeLists.txt
\* gives cmake; else setup.py gives python; else Makefile gives make; else
\* none, and none ends the run with "Build system not detected". A root with
\* both configure and Makefile is autotools. The step that detects leaves the
\* files, the directories, the installer's fields, the store and the log as
\* they were.
C12_DetectionByPriority ==
  /\ [](Detected =>
          LET bs == build_system[1]
              has(m) == m \in markers
          IN /\ has("configure") => bs = "autotools"
             /\ ~has("configure") /\ has("CMakeLists.txt") => bs = "cmake"
             /\ ~has("configure") /\ ~has("CMakeLists.txt") /\ has("setup.py")
                  => bs = "python"
             /\ ~has("configure") /\ ~has("CMakeLists.txt") /\ ~has("setup.py")
                  /\ has("Makefile") => bs = "make"
             /\ markers = {} => bs = None /\ ret[1] = DetectionFailed
             /\ {"configure", "Makefile"} \subseteq markers => bs # "make")
  /\ [][pc[1] = "d_detect" =>
          UNCHANGED <<markers, tarball, file_path, temp_dir, extracted_path,
                      staging_dir, dirs, runs, installed_files, emitted,
                      store_vars, world_vars, sink, written>>]_vars

\* C12 witness: a root with both configure and Makefile was detected as
\* autotools
C12_Witness ==
  /\ Detected
  /\ {"configure", "Makefile"} \subseteq markers
  /\ build_system[1] = "autotools"

\* the entries of the sink that are lines of a subprocess, in sink order
Forwarded == SelectSeq(sink, LAMBDA e : e.from = "process")

\* the loop over readline is at its head
Reading == pc[1] \in {"d_read_build", "d_read_install"}

\* C14: the lines the subprocesses of an attempt wrote are, in the order
\* written and each once, the lines passed to the sink followed by those
\* still in the pipe of the running command; so the lines of one command are
\* all in the sink before any line of the next, build commands' before the
\* install command's. A line in the pipe can be read and passed on whether
\* or not the process has exited.
C14_LinesForwardedInOrder ==
  /\ Len(Forwarded) + Len(pipe) = Len(written)
  /\ \A i \in 1..Len(Forwarded) :
       /\ Forwarded[i].cmd = written[i].cmd
       /\ Forwarded[i].text = Strip(written[i].line)
  /\ \A j \in 1..Len(pipe) :
       /\ pipe[j] = written[Len(Forwarded) + j].line
       /\ written[Len(Forwarded) + j].cmd = Current
  /\ \A i, j \in 1..Len(Forwarded) :
       i < j => Forwarded[i].cmd <= Forwarded[j].cmd
  /\ pipe # <<>> => Reading
  /\ Reading /\ pipe # <<>> => ENABLED ReadLine

\* C14 witness: a line of the running install command is in the sink while
\* the process runs, after a line of a build command
C14_Witness ==
  /\ pc[1] = "d_read_install"
  /\ proc = "running"
  /\ Len(Forwarded) = 2
  /\ Forwarded[1].cmd < Forwarded[2].cmd
  /\ Forwarded[2].cmd = Current

\* populate_tree has called list_archive_contents
Listed == pc[1] # "d_dialog"

\* C19: the listing of a valid archive is its full member list, and the
\* listing of a path that holds no valid gzip-tar stream is a failure, never
\* a member list; violated: of a file that is no gzip stream the listing is
\* the empty list, as of a valid archive with no members, and of an archive
\* with a corrupt later header it is the members before that header.
C19_ListingIsFullOrFailure ==
  Listed =>
    IF tarball.kind \in {"package", "empty"}
    THEN listing.raised = None /\ listing.members = tarball.members
    ELSE listing.raised # None

\* the merged output of command k of attempt 1: the lines it wrote, joined
RECURSIVE OutputFrom(_, _)
OutputFrom(k, i) ==
  IF i > Len(written) THEN <<>>
  ELSE (IF written[i].cmd = k THEN written[i].line ELSE <<>>)
         \o OutputFrom(k, i + 1)

\* command k wrote the line
Wrote(k, line) ==
  \E i \in 1..Len(written) : written[i].cmd = k /\ written[i].line = line

\* run_installation has returned from the failure of a build command, which
\* is the last command run
BuildFailed ==
  /\ ret[1] # NoRet
  /\ runs[1] # <<>>
  /\ LET last == runs[1][Len(runs[1])]
     IN IsBuild(last.cmd) /\ last.how = "nonzero"

\* "package containing foo/bar.h"
BarHint == PackageContaining \o <<"f", "o", "o", "/", "b", "a", "r", ".", "h">>

\* "libfoo-dev"
FooHint == <<"l", "i", "b", "f", "o", "o", "-", "d", "e", "v">>

\* C20: the outcome of a failed build command carries a dependency hint
\* exactly when the diagnosis of that command's own merged output gives one,
\* and then that hint: the header's if the output holds the fatal error line,
\* whether or not it also holds the linker's line; lib<name>-dev if it holds
\* the linker's line only; none, and "Command failed", if it holds neither.
C20_HintFromOwnOutputHeaderFirst ==
  BuildFailed =>
    LET k == Len(runs[1])
        out == OutputFrom(k, 1)
        hinted == ret[1].type = "dependency"
    IN /\ ~ret[1].ok
       /\ hinted <=> ParseErrorText(out) # NoHint
       /\ hinted => ret[1].info = ParseErrorText(out)
       /\ Wrote(k, HeaderLine) => hinted /\ ret[1].info = BarHint
       /\ ~Wrote(k, HeaderLine) /\ Wrote(k, LibLine)
            => hinted /\ ret[1].info = FooHint
       /\ ~Wrote(k, HeaderLine) /\ ~Wrote(k, LibLine)
            => ret[1] = Result(FALSE, "str", "Command failed")

\* C20 witness: a build command wrote the linker's line and then the fatal
\* error line and failed, and the hint is the header's
C20_Witness ==
  /\ BuildFailed
  /\ OutputFrom(Len(runs[1]), 1) = LibLine \o HeaderLine
  /\ ret[1].type = "dependency"
  /\ ret[1].info = BarHint

\* the package rows attempt 1 has written, committed or not
RowsWritten ==
  {r \in pending.packages \cup {c.row : c \in committed.packages} : r.by = 1}

\* C21: the persisted name is the file name without its .tar.gz suffix, split
\* on "-", without the components that start with a digit, joined with "-"
\* ("unknown_package" if nothing is left), and the persisted version is the
\* first X.Y.Z or X.Y of the file name ("unknown" if none);
\* mytool-2.3.1.tar.gz gives mytool and 2.3.1, dummy_inspect.tar.gz gives
\* unknown. Violated: for a.tar.gz-b-1.0.tar.gz the name is a-b, not
\* a.tar.gz-b.
C21_NameAndVersionFromFileName ==
  \A r \in RowsWritten :
    LET file == Basename(file_path[1])
        stem == IF EndsWith(file, TarGz)
                THEN SubSeq(file, 1, Len(file) - Len(TarGz)) ELSE file
        kept == Join(NameParts(Split(stem, "-")), "-")
    IN /\ r.name = IF kept = <<>> THEN UnknownPackage ELSE kept
       /\ r.version = GetPackageVersion(file_path[1])
       /\ file_path[1] = MyTool =>
            /\ r.name = <<"m", "y", "t", "o", "o", "l">>
            /\ r.version = <<"2", ".", "3", ".", "1">>
       /\ file_path[1] = DummyInspect => r.version = Unknown

\* a subprocess of attempt 1 has been started and its exit status not yet
\* taken
InFlight == proc \in {"running", "zero", "nonzero"}

\* C22: the commands an attempt has started are, in order, the first ones of
\* its kind's list (autotools: ./configure, make, make install; cmake:
\* cmake ., make, make install; make: make, make install; python: python3
\* setup.py install alone), every one before the last has exited with zero,
\* and while one is in flight all the others have exited with zero; the
\* install command is the kind's only one and nothing is started after it.
C22_TableOrderOneAtATime ==
  build_system[1] # None =>
    LET bs == build_system[1]
        table == CASE bs = "autotools" ->
                        << <<"./configure">>, <<"make">>, <<"make", "install">> >>
                   [] bs = "cmake" ->
                        << <<"cmake", ".">>, <<"make">>, <<"make", "install">> >>
                   [] bs = "make" -> << <<"make">>, <<"make", "install">> >>
                   [] bs = "python" -> << <<"python3", "setup.py", "install">> >>
        n == Len(runs[1])
        isInstall(c) == c[Len(c)] = "install"
    IN /\ n + (IF InFlight THEN 1 ELSE 0) <= Len(table)
       /\ \A i \in 1..n :
            /\ runs[1][i].cmd = table[i]
            /\ i < n \/ InFlight => runs[1][i].how = "zero"
            /\ isInstall(runs[1][i].cmd) => i = n /\ i = Len(table) /\ ~InFlight
       /\ pc[1] = "d_read_install" => n + 1 = Len(table)
       /\ pc[1] = "d_read_build" => n + 1 < Len(table) /\ step[1] = n + 1
       /\ pc[1] = "d_installed" => n = Len(table)
       /\ Cardinality({i \in 1..Len(table) : isInstall(table[i])}) = 1

\* C22 witness: configure, make and make install have run, each to exit
\* status zero
C22_Witness ==
  /\ build_system[1] = "autotools"
  /\ Len(runs[1]) = 3
  /\ \A i \in 1..3 : runs[1][i].how = "zero"
  /\ runs[1][3].cmd = <<"make", "install">>

\* run_installation has returned (True, "Success")
ReturnedSuccess(a) == ret[a] = Result(TRUE, "str", "Success")

\* add_package has committed the attempt's package with exactly its manifest
Persisted(a) ==
  /\ \E c \in committed.packages : c.row.by = a /\ c.row.id = package_id[a]
  /\ {c.row.path : c \in {x \in committed.files :
                            x.row.package_id = package_id[a]}}
       = Range(installed_files[a])

\* C23: when run_installation has returned Success, the install command had
\* exited zero, the manifest was built from the staging directory, the
\* package was persisted if there is a store and the manifest is not empty,
\* and the staging directory is deleted; from the install command's exit to
\* that return, through the walk and every step of the persistence, Success
\* has not been returned and the staging directory exists.
C23_StagingRemovedAfterPersistence ==
  \A a \in Attempts :
    IsInstallAttempt(a) =>
      /\ ReturnedSuccess(a) =>
           /\ InstallSucceeded(a)
           /\ Range(installed_files[a])
                = {ManifestEntry(staging_dir[a], e) : e \in staged[a]}
           /\ ShouldPersist(a, installed_files[a]) => Persisted(a)
           /\ dirs[staging_dir[a]] = 0
      /\ InstallSucceeded(a) /\ ~ReturnedSuccess(a) =>
           /\ dirs[staging_dir[a]] = a
           /\ ret[a] = NoRet
      /\ pc[a] \in {"ap_insert", "ap_files", "ap_commit"} =>
           InstallSucceeded(a) /\ ~Persisted(a)

\* C23 witness: Success was returned for an attempt with a store and a
\* manifest of two files, which are committed, and the staging directory is
\* gone
C23_Witness ==
  \E a \in Attempts :
    /\ ReturnedSuccess(a)
    /\ has_db[a]
    /\ Len(installed_files[a]) = 2
    /\ Persisted(a)
    /\ dirs[staging_dir[a]] = 0

\* run_installation was invoked on an Installer whose extract_package had
\* failed, and has ended
RanWithoutExtraction(a) ==
  /\ IsInstallAttempt(a)
  /\ archive[a] \in {"TarErrorOpen", "TarErrorExtract"}
  /\ pc[a] \in {"s_cleanup", "w_emit", "w_cleanup", "done", "crashed"}
  /\ ~(driver[a] = "worker" /\ ret[a] = NoRet /\ exc[a] = None)

\* C24: run_installation invoked when no extraction has succeeded ends with
\* "Build system not detected", raises nothing and starts no subprocess;
\* violated: after an extraction that failed before extracted_path was
\* assigned (or without any extraction) the attribute does not exist and
\* detect_build_system raises AttributeError.
C24_NoExtractionIsDetectionFailure ==
  \A a \in Attempts :
    RanWithoutExtraction(a) =>
      /\ ret[a] = DetectionFailed
      /\ exc[a] = None
      /\ runs[a] = <<>>
=============================================================================
